---- MODULE Spec2Model ----
(***************************************************************************)
(* NDMA training monitoring dashboard (src/dashboard.py).                  *)
(*                                                                         *)
(* The dashboard is a Streamlit script: every interaction of a browser     *)
(* session runs the script from the top.  The store (Firestore) and the    *)
(* two Streamlit caches are shared by all browser sessions; the            *)
(* authenticated flag is per session.  A script run is modelled as the     *)
(* sequence of its store calls, so that the runs of two sessions           *)
(* interleave at the granularity of single store calls.                    *)
(***************************************************************************)
EXTENDS Integers, Sequences, FiniteSets, TLC

VARIABLES
    programs,        \* collection training_programs: document id -> fields
    sessions,        \* all documents of the sessions sub-collections, in insertion order
    agencies,        \* collection training_agencies, in insertion order
    cache_data,      \* st.cache_data entry of get_firestore_data
    cache_resource,  \* st.cache_resource entry of initialize_firebase
    apps,            \* firebase_admin._apps is non-empty
    authenticated,   \* st.session_state.authenticated of each browser session
    pc,              \* position of each browser session's script run
    form,            \* the submission a run is processing
    view,            \* df_trainings, df_agencies of the run, while they are rendered
    msg,             \* the st.success / st.warning / st.error box of the last run
    attempt,         \* history: the credentials the session logged in with
    lastRet,         \* history: frames returned by the latest call since the last clear
    afterLogout,     \* history: the session logged out and has not run the dashboard since
    program_in,      \* merge check: a program document (id, fields)
    session_in,      \* merge check: a session document (id, fields)
    combined_record  \* merge check: the record line 66 builds from them

storeVars == <<programs, sessions, agencies>>
cacheVars == <<cache_data, cache_resource, apps>>
userVars  == <<authenticated, pc, form, view, msg, attempt>>
histVars  == <<lastRet, afterLogout>>
mergeVars == <<program_in, session_in, combined_record>>
vars == <<programs, sessions, agencies, cache_data, cache_resource, apps,
          authenticated, pc, form, view, msg, attempt, lastRet, afterLogout,
          program_in, session_in, combined_record>>

---------------------------------------------------------------------------
(* Bounds of the model *)

MaxSessions == 2      \* session documents the store holds at most
MaxAgencies == 1      \* agency documents the store holds at most

(* Program constants *)

Ttl == 60             \* @st.cache_data(ttl=60)
ADMIN_USERNAME == "admin"
ADMIN_PASSWORD == "password123"

(* Inputs *)

Users == {"A", "B"}
ProgramOrder == <<"KL-001", "KL-002">>          \* document ids in stream order
ProgramIdInputs == {"", "KL-001"}
TitleInputs == {"", "Flood Drill", "Fire Drill"}
ThemeOf(title) == IF title = "Fire Drill" THEN "Fire Safety" ELSE "Flood Response"
DateInputs == {"", "05-01-2024"}
AgencyNameInputs == {"", "Kerala SDMA"}
UsernameInputs == {"admin", "guest"}
PasswordInputs == {"password123", "letmein"}

None == "None"
NaN == "NaN"

---------------------------------------------------------------------------
(* get_firestore_data: flattening *)

Range(s) == {s[i] : i \in DOMAIN s}

\* {**program_data, **session_data, 'program_id': ..., 'session_id': ...}
CombinedRecordSessionLoses(program_data, session_data, program_id, session_id) ==
    [k \in DOMAIN program_data \cup DOMAIN session_data \cup {"program_id", "session_id"} |->
        IF k = "session_id" THEN session_id
        ELSE IF k = "program_id" THEN program_id
        ELSE IF k \in DOMAIN program_data THEN program_data[k]
        ELSE session_data[k]]

CombinedRecord(program_data, session_data, program_id, session_id) ==
    [k \in DOMAIN program_data \cup DOMAIN session_data \cup {"program_id", "session_id"} |->
        IF k = "session_id" THEN session_id
        ELSE IF k = "program_id" THEN program_id
        ELSE IF k \in DOMAIN session_data THEN session_data[k]
        ELSE program_data[k]]

\* sessions_ref.stream() of one program document
SessionsOf(sess, p) == SelectSeq(sess, LAMBDA s : s.pid = p)

\* the inner loop, lines 64-67
RowsOf(p, program_data, ss) ==
    [j \in 1..Len(ss) |-> CombinedRecord(program_data, ss[j].data, p, ss[j].sid)]

RECURSIVE FlattenFrom(_, _, _)
FlattenFromFirstSessionOnly(i, progs, sess) ==
    IF i > Len(ProgramOrder) THEN <<>>
    ELSE LET p == ProgramOrder[i]
             rows == IF p \in DOMAIN progs
                     THEN RowsOf(p, progs[p],
                                 IF SessionsOf(sess, p) = <<>> THEN <<>>
                                 ELSE <<Head(SessionsOf(sess, p))>>)
                     ELSE <<>>
         IN rows \o FlattenFrom(i + 1, progs, sess)

\* the outer loop, lines 60-67: only existing program documents are streamed
FlattenFrom(i, progs, sess) ==
    IF i > Len(ProgramOrder) THEN <<>>
    ELSE LET p == ProgramOrder[i]
             rows == IF p \in DOMAIN progs
                     THEN RowsOf(p, progs[p], SessionsOf(sess, p))
                     ELSE <<>>
         IN rows \o FlattenFrom(i + 1, progs, sess)

\* lines 72-75
AgencyRecords(ags) ==
    [j \in 1..Len(ags) |-> [k \in DOMAIN ags[j].data \cup {"agency_id"} |->
        IF k = "agency_id" THEN ags[j].id ELSE ags[j].data[k]]]

---------------------------------------------------------------------------
(* get_firestore_data: pd.DataFrame and data cleaning *)

Columns(rows) == UNION {DOMAIN rows[i] : i \in DOMAIN rows}

\* pd.DataFrame(list of dicts): the columns are the union of the keys
DataFrame(rows) ==
    [i \in DOMAIN rows |-> [c \in Columns(rows) |->
        IF c \in DOMAIN rows[i] THEN rows[i][c] ELSE NaN]]

TrainingRenames ==
    [title |-> "Program Title", location |-> "State/District",
     theme |-> "Training Theme", date |-> "Date of Session",
     attendees |-> "Number of Attendees", notes |-> "Remarks"]

AgencyRenames == [name |-> "Agency Name", type |-> "Agency Type"]

NewName(table, c) == IF c \in DOMAIN table THEN table[c] ELSE c

\* df.rename(columns=table)
Rename(df, table) ==
    [i \in DOMAIN df |-> [c \in {NewName(table, k) : k \in DOMAIN df[i]} |->
        df[i][CHOOSE k \in DOMAIN df[i] : NewName(table, k) = c]]]

\* pd.to_datetime(..., format='%d-%m-%Y', errors='coerce') on the dates the forms offer
NaT == <<>>
ParseDate(s) == IF s = "05-01-2024" THEN <<2024, 1, 5>> ELSE NaT

\* district_coords.get(x, {}).get(axis)
DistrictCoords == [Kollam |-> [lat |-> "8.8932", lon |-> "76.6141"]]
Coord(x, axis) == IF x \in DOMAIN DistrictCoords THEN DistrictCoords[x][axis] ELSE None

\* lines 85 and 97 index these columns: a KeyError when one does not exist
CleaningRaises(df) ==
    /\ df # <<>>
    /\ ~ ({"Date of Session", "State/District"} \subseteq Columns(Rename(df, TrainingRenames)))

\* lines 79-98
CleanTrainings(df) ==
    IF df = <<>> THEN df
    ELSE LET r == Rename(df, TrainingRenames)
         IN      [i \in DOMAIN r |->
                    [c \in DOMAIN r[i] \cup {"lat", "lon"} |->
                        IF c = "lat" THEN Coord(r[i]["State/District"], "lat")
                        ELSE IF c = "lon" THEN Coord(r[i]["State/District"], "lon")
                        ELSE IF c = "Date of Session" THEN ParseDate(r[i][c])
                        ELSE r[i][c]]]

\* lines 101-102
CleanAgencies(df) == IF df = <<>> THEN df ELSE Rename(df, AgencyRenames)

EmptyFrames == [trainings |-> <<>>, agencies |-> <<>>]

FailPoints == {"none", "programs", "sessions", "agencies"}

\* The body of get_firestore_data for a live client.  failAt is the store read
\* that raises, if any; the except clause of lines 105-107 returns two empty frames.
FetchKeepsTrainings(progs, sess, ags, failAt) ==
    LET raw == DataFrame(FlattenFrom(1, progs, sess))
    IN IF failAt \in {"programs", "sessions"} \/ CleaningRaises(raw) THEN EmptyFrames
       ELSE IF failAt = "agencies"
            THEN [trainings |-> CleanTrainings(raw), agencies |-> <<>>]
            ELSE [trainings |-> CleanTrainings(raw),
                  agencies |-> CleanAgencies(DataFrame(AgencyRecords(ags)))]

Fetch(progs, sess, ags, failAt) ==
    LET raw == DataFrame(FlattenFrom(1, progs, sess))
    IN IF failAt # "none" \/ CleaningRaises(raw) THEN EmptyFrames
       ELSE [trainings |-> CleanTrainings(raw),
             agencies |-> CleanAgencies(DataFrame(AgencyRecords(ags)))]

\* a read of the sessions of some program can only fail when a program is streamed
CanFailAt(progs, failAt) == failAt = "sessions" => DOMAIN progs # {}

---------------------------------------------------------------------------
(* Caches *)

NoCache == [present |-> FALSE, value |-> EmptyFrames, error |-> FALSE, age |-> 0]

\* an entry of st.cache_data(ttl=60) is served while it is younger than the ttl
HitUpToTtl(c) == c.present /\ c.age <= Ttl
Hit(c) == c.present /\ c.age < Ttl

NoView == [trainings |-> <<>>, agencies |-> <<>>, queried |-> FALSE, error |-> FALSE,
           failAt |-> "none"]
NoForm == [kind |-> "none"]
NoAttempt == <<>>
NoRet == [set |-> FALSE, value |-> EmptyFrames]

---------------------------------------------------------------------------
(* Initial state: an empty store, cold caches, nobody logged in *)

MainInit ==
    /\ programs = <<>>
    /\ sessions = <<>>
    /\ agencies = <<>>
    /\ cache_data = NoCache
    /\ cache_resource = "empty"
    /\ apps = FALSE
    /\ authenticated = [u \in Users |-> FALSE]
    /\ pc = [u \in Users |-> "idle"]
    /\ form = [u \in Users |-> NoForm]
    /\ view = [u \in Users |-> NoView]
    /\ msg = [u \in Users |-> "none"]
    /\ attempt = [u \in Users |-> NoAttempt]
    /\ lastRet = NoRet
    /\ afterLogout = [u \in Users |-> FALSE]

NoDocument == [id |-> "", data |-> <<>>]

Init ==
    /\ MainInit
    /\ program_in = NoDocument
    /\ session_in = NoDocument
    /\ combined_record = <<>>

---------------------------------------------------------------------------
(* The login page, lines 110-126 *)

LoginChecksUsernameOnly(u, username, password) ==
    /\ pc[u] = "idle"
    /\ ~authenticated[u]
    /\ IF username = ADMIN_USERNAME
       THEN /\ authenticated' = [authenticated EXCEPT ![u] = TRUE]
            /\ attempt' = [attempt EXCEPT ![u] = <<username, password>>]
            /\ msg' = [msg EXCEPT ![u] = "none"]
       ELSE /\ msg' = [msg EXCEPT ![u] = "error"]
            /\ UNCHANGED <<authenticated, attempt>>
    /\ UNCHANGED <<storeVars, cacheVars, pc, form, view, histVars>>
    /\ UNCHANGED mergeVars

Login(u, username, password) ==
    /\ pc[u] = "idle"
    /\ ~authenticated[u]
    /\ IF username = ADMIN_USERNAME /\ password = ADMIN_PASSWORD
       THEN /\ authenticated' = [authenticated EXCEPT ![u] = TRUE]
            /\ attempt' = [attempt EXCEPT ![u] = <<username, password>>]
            /\ msg' = [msg EXCEPT ![u] = "none"]
       ELSE /\ msg' = [msg EXCEPT ![u] = "error"]
            /\ UNCHANGED <<authenticated, attempt>>
    /\ UNCHANGED <<storeVars, cacheVars, pc, form, view, histVars>>
    /\ UNCHANGED mergeVars

---------------------------------------------------------------------------
(* The top of an authenticated run, lines 127-135 *)

\* initialize_firebase under st.cache_resource: the value it returns and what is
\* left in firebase_admin._apps.  outcome is what the initialisation does when it runs.
InitOutcomes == {"ok", "raises_before_app", "raises_after_app"}

DbOf(outcome) ==
    IF cache_resource # "empty" THEN cache_resource
    ELSE IF apps THEN "client"
    ELSE IF outcome = "ok" THEN "client" ELSE None

AppsOf(outcome) ==
    IF cache_resource # "empty" \/ apps THEN apps
    ELSE outcome # "raises_before_app"

Run(u) ==
    /\ pc[u] = "idle"
    /\ authenticated[u]
    /\ \E outcome \in InitOutcomes, failAt \in FailPoints :
        LET db == DbOf(outcome) IN
        /\ cache_resource # "empty" \/ apps => outcome = "ok"
        /\ cache_resource' = db
        /\ apps' = AppsOf(outcome)
        /\ IF db = None
           THEN \* line 246
                /\ failAt = "none"
                /\ msg' = [msg EXCEPT ![u] = "error"]
                /\ UNCHANGED <<cache_data, pc, view, histVars>>
           ELSE /\ msg' = [msg EXCEPT ![u] = "none"]
                /\ pc' = [pc EXCEPT ![u] = "loaded"]
                /\ afterLogout' = [afterLogout EXCEPT ![u] = FALSE]
                /\ IF Hit(cache_data)
                   THEN /\ failAt = "none"
                        /\ view' = [view EXCEPT ![u] =
                              [trainings |-> cache_data.value.trainings,
                               agencies |-> cache_data.value.agencies,
                               queried |-> FALSE, error |-> cache_data.error,
                               failAt |-> "none"]]
                        /\ lastRet' = [set |-> TRUE, value |-> cache_data.value]
                        /\ UNCHANGED cache_data
                   ELSE /\ CanFailAt(programs, failAt)
                        /\ LET got == Fetch(programs, sessions, agencies, failAt) IN
                           /\ cache_data' = [present |-> TRUE, value |-> got,
                                             error |-> failAt # "none", age |-> 0]
                           /\ view' = [view EXCEPT ![u] =
                                 [trainings |-> got.trainings, agencies |-> got.agencies,
                                  queried |-> TRUE, error |-> failAt # "none",
                                  failAt |-> failAt]]
                           /\ lastRet' = [set |-> TRUE, value |-> got]
    /\ UNCHANGED <<storeVars, authenticated, form, attempt>>
    /\ UNCHANGED mergeVars

\* the run ends without a button pressed
Render(u) ==
    /\ pc[u] = "loaded"
    /\ pc' = [pc EXCEPT ![u] = "idle"]
    /\ view' = [view EXCEPT ![u] = NoView]
    /\ UNCHANGED <<storeVars, cacheVars, authenticated, form, msg, attempt, histVars>>
    /\ UNCHANGED mergeVars

\* lines 139-142
Logout(u) ==
    /\ pc[u] = "loaded"
    /\ authenticated' = [authenticated EXCEPT ![u] = FALSE]
    /\ cache_data' = NoCache
    /\ cache_resource' = "empty"
    /\ lastRet' = NoRet
    /\ afterLogout' = [afterLogout EXCEPT ![u] = TRUE]
    /\ attempt' = [attempt EXCEPT ![u] = NoAttempt]
    /\ pc' = [pc EXCEPT ![u] = "idle"]
    /\ view' = [view EXCEPT ![u] = NoView]
    /\ UNCHANGED <<storeVars, apps, form, msg>>
    /\ UNCHANGED mergeVars

\* half a cache window passes; an entry past its ttl does not age further
Tick ==
    /\ cache_data.present
    /\ cache_data.age < Ttl
    /\ cache_data' = [cache_data EXCEPT !.age = @ + Ttl \div 2]
    /\ UNCHANGED <<storeVars, cache_resource, apps, userVars, histVars>>
    /\ UNCHANGED mergeVars

---------------------------------------------------------------------------
(* new_training_form, lines 195-228 *)

SubmitTrainingIgnoresDate(u, program_id, program_title, session_date) ==
    /\ pc[u] = "loaded"
    /\ view' = [view EXCEPT ![u] = NoView]
    /\ IF program_id = "" \/ program_title = ""
       THEN /\ msg' = [msg EXCEPT ![u] = "warning"]
            /\ pc' = [pc EXCEPT ![u] = "idle"]
            /\ UNCHANGED form
       ELSE /\ form' = [form EXCEPT ![u] =
                  [kind |-> "training", program_id |-> program_id,
                   title |-> program_title, theme |-> ThemeOf(program_title),
                   date |-> session_date, exists |-> FALSE]]
            /\ pc' = [pc EXCEPT ![u] = "get"]
            /\ UNCHANGED msg
    /\ UNCHANGED <<storeVars, cacheVars, authenticated, attempt, histVars>>
    /\ UNCHANGED mergeVars

\* lines 205-208: the form is submitted; validation comes before any store call
SubmitTraining(u, program_id, program_title, session_date) ==
    /\ pc[u] = "loaded"
    /\ view' = [view EXCEPT ![u] = NoView]
    /\ IF program_id = "" \/ program_title = "" \/ session_date = ""
       THEN /\ msg' = [msg EXCEPT ![u] = "warning"]
            /\ pc' = [pc EXCEPT ![u] = "idle"]
            /\ UNCHANGED form
       ELSE /\ form' = [form EXCEPT ![u] =
                  [kind |-> "training", program_id |-> program_id,
                   title |-> program_title, theme |-> ThemeOf(program_title),
                   date |-> session_date, exists |-> FALSE]]
            /\ pc' = [pc EXCEPT ![u] = "get"]
            /\ UNCHANGED msg
    /\ UNCHANGED <<storeVars, cacheVars, authenticated, attempt, histVars>>
    /\ UNCHANGED mergeVars

\* lines 227-228: a store call of the handler raised
Raise(u) ==
    /\ msg' = [msg EXCEPT ![u] = "error"]
    /\ pc' = [pc EXCEPT ![u] = "idle"]
    /\ form' = [form EXCEPT ![u] = NoForm]

TrainingGetSkipsCreate(u) ==
    /\ pc[u] = "get"
    /\ \E ok \in BOOLEAN :
        IF ok
        THEN /\ form' = [form EXCEPT ![u].exists = form[u].program_id \in DOMAIN programs]
             /\ pc' = [pc EXCEPT ![u] = "add"]
             /\ UNCHANGED msg
        ELSE Raise(u)
    /\ UNCHANGED <<storeVars, cacheVars, authenticated, view, attempt, histVars>>
    /\ UNCHANGED mergeVars

\* lines 210-211 and the test of line 221.  doc(program_id) is taken to be the
\* document reference of that id; if the client has no such method the call
\* raises, which is the ~ok branch.
TrainingGet(u) ==
    /\ pc[u] = "get"
    /\ \E ok \in BOOLEAN :
        IF ok
        THEN /\ form' = [form EXCEPT ![u].exists = form[u].program_id \in DOMAIN programs]
             /\ pc' = [pc EXCEPT ![u] =
                         IF form[u].program_id \in DOMAIN programs THEN "add" ELSE "set"]
             /\ UNCHANGED msg
        ELSE Raise(u)
    /\ UNCHANGED <<storeVars, cacheVars, authenticated, view, attempt, histVars>>
    /\ UNCHANGED mergeVars

\* line 222: set() writes the whole document
TrainingSet(u) ==
    /\ pc[u] = "set"
    /\ \E ok \in BOOLEAN :
        IF ok
        THEN /\ programs' = (form[u].program_id :>
                               [title |-> form[u].title, theme |-> form[u].theme]) @@ programs
             /\ pc' = [pc EXCEPT ![u] = "add"]
             /\ UNCHANGED <<form, msg>>
        ELSE Raise(u) /\ UNCHANGED programs
    /\ UNCHANGED <<sessions, agencies, cacheVars, authenticated, view, attempt, histVars>>
    /\ UNCHANGED mergeVars

SessionData(f) ==
    [date |-> f.date, attendees |-> 25, location |-> "Kerala", notes |-> "",
     recordedAt |-> "SERVER_TIMESTAMP"]

TrainingAddSwallowsError(u) ==
    /\ pc[u] = "add"
    /\ \E ok \in BOOLEAN :
        /\ IF ok
           THEN /\ Len(sessions) < MaxSessions
                /\ sessions' = Append(sessions,
                      [pid |-> form[u].program_id, sid |-> "s" \o ToString(Len(sessions) + 1),
                       data |-> SessionData(form[u]), by |-> u])
           ELSE UNCHANGED sessions
        /\ msg' = [msg EXCEPT ![u] = "success"]
        /\ pc' = [pc EXCEPT ![u] = "clear"]
        /\ UNCHANGED form
    /\ UNCHANGED <<programs, agencies, cacheVars, authenticated, view, attempt, histVars>>
    /\ UNCHANGED mergeVars

\* lines 224-225: add() gives the document a fresh id
TrainingAdd(u) ==
    /\ pc[u] = "add"
    /\ \E ok \in BOOLEAN :
        IF ok
        THEN /\ Len(sessions) < MaxSessions
             /\ sessions' = Append(sessions,
                   [pid |-> form[u].program_id, sid |-> "s" \o ToString(Len(sessions) + 1),
                    data |-> SessionData(form[u]), by |-> u])
             /\ msg' = [msg EXCEPT ![u] = "success"]
             /\ pc' = [pc EXCEPT ![u] = "clear"]
             /\ UNCHANGED form
        ELSE Raise(u) /\ UNCHANGED sessions
    /\ UNCHANGED <<programs, agencies, cacheVars, authenticated, view, attempt, histVars>>
    /\ UNCHANGED mergeVars

---------------------------------------------------------------------------
(* new_agency_form, lines 233-244 *)

AgencyTypes == {"SDMA"}

\* line 238
SubmitAgency(u, agency_name, agency_type) ==
    /\ pc[u] = "loaded"
    /\ view' = [view EXCEPT ![u] = NoView]
    /\ IF agency_name = ""
       THEN /\ pc' = [pc EXCEPT ![u] = "idle"]
            /\ UNCHANGED form
       ELSE /\ form' = [form EXCEPT ![u] =
                  [kind |-> "agency", name |-> agency_name, type |-> agency_type]]
            /\ pc' = [pc EXCEPT ![u] = "agency_add"]
    /\ UNCHANGED <<storeVars, cacheVars, authenticated, msg, attempt, histVars>>
    /\ UNCHANGED mergeVars

\* lines 240-241
AgencyAdd(u) ==
    /\ pc[u] = "agency_add"
    /\ \E ok \in BOOLEAN :
        IF ok
        THEN /\ Len(agencies) < MaxAgencies
             /\ agencies' = Append(agencies,
                   [id |-> "a" \o ToString(Len(agencies) + 1),
                    data |-> [name |-> form[u].name, type |-> form[u].type], by |-> u])
             /\ msg' = [msg EXCEPT ![u] = "success"]
             /\ pc' = [pc EXCEPT ![u] = "clear"]
             /\ UNCHANGED form
        ELSE Raise(u) /\ UNCHANGED agencies
    /\ UNCHANGED <<programs, sessions, cacheVars, authenticated, view, attempt, histVars>>
    /\ UNCHANGED mergeVars

\* lines 226 and 242: st.cache_data.clear()
ClearForgotten(u) ==
    /\ pc[u] = "clear"
    /\ pc' = [pc EXCEPT ![u] = "idle"]
    /\ form' = [form EXCEPT ![u] = NoForm]
    /\ lastRet' = NoRet
    /\ UNCHANGED <<storeVars, cacheVars, authenticated, view, msg, attempt, afterLogout>>
    /\ UNCHANGED mergeVars

Clear(u) ==
    /\ pc[u] = "clear"
    /\ cache_data' = NoCache
    /\ lastRet' = NoRet
    /\ pc' = [pc EXCEPT ![u] = "idle"]
    /\ form' = [form EXCEPT ![u] = NoForm]
    /\ UNCHANGED <<storeVars, cache_resource, apps, authenticated, view, msg, attempt,
                   afterLogout>>
    /\ UNCHANGED mergeVars

---------------------------------------------------------------------------
(* The dashboard *)

MainNext ==
    \/ \E u \in Users, n \in UsernameInputs, p \in PasswordInputs : Login(u, n, p)
    \/ \E u \in Users : Run(u)
    \/ \E u \in Users : Render(u)
    \/ \E u \in Users : Logout(u)
    \/ \E u \in Users, i \in ProgramIdInputs, t \in TitleInputs, d \in DateInputs :
          SubmitTraining(u, i, t, d)
    \/ \E u \in Users : TrainingGet(u)
    \/ \E u \in Users : TrainingSet(u)
    \/ \E u \in Users : TrainingAdd(u)
    \/ \E u \in Users, n \in AgencyNameInputs, t \in AgencyTypes : SubmitAgency(u, n, t)
    \/ \E u \in Users : AgencyAdd(u)
    \/ \E u \in Users : Clear(u)
    \/ Tick

Next == MainNext

Spec == Init /\ [][Next]_vars

---------------------------------------------------------------------------
(* The read path over stores the forms can have written *)

MaxReadSessions == 3

ReadDates == {"05-01-2024", "next week"}

ProgramDocs == {[title |-> t, theme |-> ThemeOf(t)] : t \in TitleInputs \ {""}}

SessionDocs(ids) ==
    {[pid |-> p, data |-> SessionData([date |-> d])] : p \in ids, d \in ReadDates}

\* add() numbers the documents in insertion order
Numbered(docs, prefix) ==
    [j \in DOMAIN docs |-> [k \in DOMAIN docs[j] \cup {prefix[1], "by"} |->
        IF k = prefix[1] THEN prefix[2] \o ToString(j)
        ELSE IF k = "by" THEN "A" ELSE docs[j][k]]]

SeqsUpTo(S, n) == UNION {[1..m -> S] : m \in 0..n}

ReadInit ==
    /\ \E ids \in SUBSET Range(ProgramOrder) :
        /\ programs \in [ids -> ProgramDocs]
        /\ \E ss \in SeqsUpTo(SessionDocs(ids), MaxReadSessions) :
              sessions = Numbered(ss, <<"sid", "s">>)
    /\ \E ags \in SeqsUpTo({[data |-> [name |-> "Kerala SDMA", type |-> t]] : t \in AgencyTypes},
                           MaxAgencies) :
          agencies = Numbered(ags, <<"id", "a">>)
    /\ cache_data = NoCache
    /\ cache_resource = "client"
    /\ apps = TRUE
    /\ authenticated = [u \in Users |-> TRUE]
    /\ pc = [u \in Users |-> "idle"]
    /\ form = [u \in Users |-> NoForm]
    /\ view = [u \in Users |-> NoView]
    /\ msg = [u \in Users |-> "none"]
    /\ attempt = [u \in Users |-> <<ADMIN_USERNAME, ADMIN_PASSWORD>>]
    /\ lastRet = NoRet
    /\ afterLogout = [u \in Users |-> FALSE]
    /\ program_in = NoDocument
    /\ session_in = NoDocument
    /\ combined_record = <<>>

ReadNext ==
    \/ \E u \in Users : Run(u)
    \/ \E u \in Users : Render(u)

SpecRead == ReadInit /\ [][ReadNext]_vars

---------------------------------------------------------------------------
(* Line 66 on arbitrary documents *)

MergeFields == {"title", "date", "program_id", "session_id"}
MergeValues == {"x", "y"}
MergeDocs == UNION {[S -> MergeValues] : S \in SUBSET MergeFields}

MergeInit ==
    /\ MainInit
    /\ program_in \in {[id |-> "KL-001", data |-> d] : d \in MergeDocs}
    /\ session_in \in {[id |-> "s1", data |-> d] : d \in MergeDocs}
    /\ combined_record = <<>>

Combine ==
    /\ combined_record = <<>>
    /\ combined_record' =
          CombinedRecord(program_in.data, session_in.data, program_in.id, session_in.id)
    /\ UNCHANGED <<storeVars, cacheVars, userVars, histVars, program_in, session_in>>

MergeNext == Combine

SpecMerge == MergeInit /\ [][MergeNext]_vars

---------------------------------------------------------------------------
(* Properties of the read path (SpecRead) *)

Frames(v) == [trainings |-> v.trainings, agencies |-> v.agencies]

RowsFor(df, p) == {i \in DOMAIN df : df[i]["program_id"] = p}
StoredFor(p) == {i \in DOMAIN sessions : sessions[i].pid = p}

\* C1: when every store read of the call succeeds, the trainings frame a run gets
\* has exactly one row per (program, session) pair of the store: each program
\* document with n sessions has exactly n rows (none when n = 0), and the rows
\* are exactly the stored pairs.
C1_OneRowPerPair ==
    \A u \in Users :
        pc[u] = "loaded" /\ ~view[u].error =>
            LET df == view[u].trainings IN
            /\ \A p \in Range(ProgramOrder) :
                  Cardinality(RowsFor(df, p)) =
                      IF p \in DOMAIN programs THEN Cardinality(StoredFor(p)) ELSE 0
            /\ {<<df[i]["program_id"], df[i]["session_id"]>> : i \in DOMAIN df} =
                  {<<sessions[i].pid, sessions[i].sid>> : i \in DOMAIN sessions}
            /\ Len(df) = Len(sessions)

\* a successful fetch of a store with a program without sessions and one with two
C1_Witness ==
    \E u \in Users :
        /\ pc[u] = "loaded" /\ view[u].queried /\ ~view[u].error
        /\ \E p, q \in DOMAIN programs :
              /\ StoredFor(p) = {}
              /\ Cardinality(StoredFor(q)) >= 2
              /\ Cardinality(RowsFor(view[u].trainings, q)) >= 2

\* C8: a run whose frames come from a call in which a store read failed gets two
\* empty frames, whichever read it was.
C8_NoPartialResults ==
    \A u \in Users :
        pc[u] = "loaded" /\ view[u].error =>
            view[u].trainings = <<>> /\ view[u].agencies = <<>>

\* only the agencies read failed, after programs with sessions were read
C8_Witness ==
    \E u \in Users :
        /\ pc[u] = "loaded" /\ view[u].failAt = "agencies"
        /\ sessions # <<>>
        /\ view[u].trainings = <<>>

---------------------------------------------------------------------------
(* Properties of the merge (SpecMerge) *)

Synthetic == {"program_id", "session_id"}

MergedOn(keys) ==
    /\ DOMAIN program_in.data \cup DOMAIN session_in.data \subseteq DOMAIN combined_record
    /\ \A k \in DOMAIN session_in.data \cap keys : combined_record[k] = session_in.data[k]
    /\ \A k \in (DOMAIN program_in.data \ DOMAIN session_in.data) \cap keys :
          combined_record[k] = program_in.data[k]
    /\ combined_record["program_id"] = program_in.id
    /\ combined_record["session_id"] = session_in.id

\* C2 as stated: the record holds every field of the program and of the session
\* with its value, the session's value on a collision, and the two document ids
\* under program_id and session_id.
C2_Original == combined_record # <<>> => MergedOn(MergeFields)

\* C2: the record has a key for every field of the program and of the session;
\* program_id and session_id hold the two document ids; every other key holds the
\* session's value if the session has the field and the program's value otherwise.
C2_MergedRecord == combined_record # <<>> => MergedOn(MergeFields \ Synthetic)

\* both documents carry a title, with different values
C2_Witness ==
    /\ combined_record # <<>>
    /\ "title" \in DOMAIN program_in.data \cap DOMAIN session_in.data
    /\ program_in.data["title"] # session_in.data["title"]
    /\ combined_record["title"] = session_in.data["title"]

---------------------------------------------------------------------------
(* Properties of the forms (Spec) *)

FormPid(u) == form[u].program_id

\* C3: no session document exists under a program id without a program document;
\* a submission that found no program document writes it with the entered title
\* and theme and nothing else, and only then appends exactly one session under it.
C3_ProgramBeforeSession ==
    /\ [](\A i \in DOMAIN sessions : sessions[i].pid \in DOMAIN programs)
    /\ [][\A u \in Users :
            /\ pc[u] = "get" /\ pc'[u] = "set" => FormPid(u) \notin DOMAIN programs
            /\ pc[u] = "get" /\ pc'[u] = "add" => FormPid(u) \in DOMAIN programs
            /\ pc[u] = "set" /\ pc'[u] = "add" =>
                  /\ DOMAIN programs' = DOMAIN programs \cup {FormPid(u)}
                  /\ programs'[FormPid(u)] = [title |-> form[u].title, theme |-> form[u].theme]
                  /\ sessions' = sessions
            /\ pc[u] = "add" /\ pc'[u] = "clear" =>
                  /\ programs' = programs
                  /\ FormPid(u) \in DOMAIN programs
                  /\ Len(sessions') = Len(sessions) + 1
                  /\ SubSeq(sessions', 1, Len(sessions)) = sessions
                  /\ sessions'[Len(sessions')].pid = FormPid(u)]_vars

\* a submission for an absent program id has written the program and its session
C3_Witness ==
    \E u \in Users :
        /\ pc[u] = "clear" /\ form[u].kind = "training" /\ ~form[u].exists
        /\ FormPid(u) \in DOMAIN programs
        /\ programs[FormPid(u)].title = form[u].title
        /\ \E i \in DOMAIN sessions : sessions[i].pid = FormPid(u) /\ sessions[i].by = u

\* C4: a new-training submission with an empty program id, title or date, and a
\* new-agency submission with an empty name, end the run without a store write.
C4_ValidationBeforeWrites ==
    [][\A u \in Users :
        pc[u] = "loaded" /\ ~(pc'[u] = "idle" /\ storeVars' = storeVars) =>
            /\ \A i \in ProgramIdInputs, t \in TitleInputs, d \in DateInputs :
                  i = "" \/ t = "" \/ d = "" => ~SubmitTraining(u, i, t, d)
            /\ \A n \in AgencyNameInputs, t \in AgencyTypes :
                  n = "" => ~SubmitAgency(u, n, t)]_vars

\* a rejected new-training submission, with nothing in the store
C4_Witness ==
    \E u \in Users :
        /\ pc[u] = "idle" /\ msg[u] = "warning"
        /\ programs = <<>> /\ sessions = <<>> /\ agencies = <<>>

\* C5: the step that appends the session either appends it, or reports an error
\* and ends the run with no session added, the cache untouched and the program
\* documents as they were: a program document this submission created stays.
C5_NoRollback ==
    [][\A u \in Users :
        pc[u] = "add" /\ pc'[u] # "add" =>
            \/ /\ Len(sessions') = Len(sessions) + 1
               /\ msg'[u] = "success"
            \/ /\ sessions' = sessions
               /\ msg'[u] = "error"
               /\ pc'[u] = "idle"
               /\ cache_data' = cache_data
               /\ programs' = programs
               /\ ~form[u].exists => FormPid(u) \in DOMAIN programs']_vars

\* the session append failed after the program was created: a program without sessions
C5_Witness ==
    \E u \in Users :
        /\ \A v \in Users : pc[v] = "idle"
        /\ msg[u] = "error"
        /\ programs # <<>>
        /\ sessions = <<>>

\* C6: a call made while an entry younger than 60 seconds is cached (no clear
\* since the call that stored it) returns what the previous call returned and
\* does not query the store; a call after a clear, or on an entry aged 60 seconds,
\* queries the store.
C6_CacheWindow ==
    [][\A u \in Users :
        pc[u] = "idle" /\ pc'[u] = "loaded" =>
            /\ lastRet.set /\ cache_data.age < 60 =>
                  ~view'[u].queried /\ Frames(view'[u]) = lastRet.value
            /\ ~lastRet.set \/ cache_data.age >= 60 => view'[u].queried]_vars

\* a call served from the cache half a window after the entry was stored
C6_Witness ==
    \E u \in Users :
        /\ pc[u] = "loaded" /\ ~view[u].queried
        /\ cache_data.age > 0
        /\ view[u].trainings # <<>>

WrittenBy(u) ==
    {sessions[i].sid : i \in {j \in DOMAIN sessions : sessions[j].by = u}}
AddedBy(u) ==
    {agencies[i].id : i \in {j \in DOMAIN agencies : agencies[j].by = u}}
ShownSessions(u) == {view[u].trainings[i]["session_id"] : i \in DOMAIN view[u].trainings}
ShownAgencies(u) == {view[u].agencies[i]["agency_id"] : i \in DOMAIN view[u].agencies}

AdminOnly ==
    \A u \in Users :
        /\ pc[u] # "idle" => authenticated[u]
        /\ authenticated[u] => attempt[u] = <<"admin", "password123">>

LogoutClears ==
    \A u \in Users :
        authenticated[u] /\ ~authenticated'[u] =>
            /\ pc[u] = "loaded"
            /\ ~cache_data'.present
            /\ cache_resource' = "empty"

\* C9 as stated: in addition, the first dashboard run of a session after its
\* logout queries the store.
C9_Original ==
    /\ \A u \in Users : ~authenticated[u]
    /\ []AdminOnly
    /\ [][LogoutClears]_vars
    /\ [][\A u \in Users :
            afterLogout[u] /\ pc[u] = "idle" /\ pc'[u] = "loaded" => view'[u].queried]_vars

\* C9: a run that reaches the store belongs to an authenticated session; the flag
\* starts false and is true only after a login with the admin pair; Logout sets
\* it false and empties both caches, so the next call made while the data cache
\* is still empty queries the store.
C9_AuthGate ==
    /\ \A u \in Users : ~authenticated[u]
    /\ []AdminOnly
    /\ [][LogoutClears]_vars
    /\ [][\A u \in Users :
            ~cache_data.present /\ pc[u] = "idle" /\ pc'[u] = "loaded" =>
                view'[u].queried]_vars

\* a session has logged out while another is still logged in
C9_Witness ==
    \E u, v \in Users :
        /\ afterLogout[u] /\ ~authenticated[u]
        /\ ~cache_data.present /\ cache_resource = "empty"
        /\ authenticated[v]

\* C10: once a program document exists, no step changes its fields.
C10_ProgramImmutable ==
    [][\A p \in DOMAIN programs : p \in DOMAIN programs' /\ programs'[p] = programs[p]]_vars

====
